---- MODULE Spec2Model ----
\* A model of the RouterOS API client (package routeros_api): the length
\* codec, the word stream, the sentence codec and the RunCommand loop over
\* a TCP byte stream.
\*
\* Bytes are the integers 0..255.  A Go string / []byte is a sequence of
\* bytes.  A Go int64 is a tuple of 8 bytes, most significant first (two's
\* complement), because the lengths of the codec reach 0xFFFFFFFF and
\* beyond, outside the range of the model checker's integers.
EXTENDS Integers, Sequences, FiniteSets, TLC

VARIABLES
    \* --- length codec (write_length / read_length on one stream) ---
    lenPc,      \* "start" | "written" | "read"
    lenIn,      \* the int64 handed to write_length
    lenWire,    \* the bytes write_length wrote to the connection
    lenOut,     \* what read_length returned
    lenUsed,    \* how many bytes read_length consumed
    \* --- sentence codec (write_sentence / read_sentence on one stream) ---
    sentPc,     \* "start" | "written" | "read" | "panic"
    sentIn,     \* the Sentence handed to write_sentence
    sentWords,  \* the words write_sentence handed to write_word, in order
    sentWire,   \* the bytes written to the connection
    sentOut,    \* the Sentence read_sentence returned
    \* --- a session: RunCommand calls against a peer over TCP ---
    pc,         \* per caller: "idle" | "write" | "read" | "returned" | "panic"
    towrite,    \* per caller: the buffers write_sentence has still to hand to conn.Write
    words,      \* per caller: read_sentence's local `words`
    reply,      \* per caller: RunCommand's `reply`
    err,        \* per caller: RunCommand's `err`
    out,        \* the bytes the client wrote to the connection
    nreq,       \* how many request sentences were written in full
    ncalls,     \* how many RunCommand calls were made
    stream,     \* the bytes the peer sent that the client has not read yet
    peerClosed, \* the peer closed its end of the stream
    peerLog,    \* history: the sentences the peer sent, in order
    lastRead,   \* history: what the last read_word call did
    overlap,    \* history: two RunCommand calls were in progress at the same time
    rlen,       \* per caller: the bytes read_length has read in the read_word in progress
    \* --- word stream (write_word / read_word / read_sentence on one stream) ---
    wordPc,     \* "start" | "written" | "sentence" | "panic"
    wordsIn,    \* the words handed to write_word, in order
    wordWire,   \* the bytes written that have not been read yet
    wordsOut,   \* the words the read_word calls returned, in order
    wordSent,   \* the Sentence read_sentence returned
    \* --- framing (read_word on raw bytes of a stream that then ends) ---
    framePc,    \* "start" | "read"
    frameWire,  \* the bytes on the stream before its end
    frameWord,  \* what read_word returned
    \* --- a client: Connect, RunCommand and Close calls on one Client ---
    cpc,        \* the call in progress: "idle" | "login1" | "login2" | "run" | "panic"
    conn,       \* client.conn: "nil" | "open" | "closed" (Close was called on it)
    cret,       \* "none" | "returned": whether Connect was called and returned
    cerr,       \* the error Connect returned
    runs,       \* how many RunCommand calls the caller made
    closeLog,   \* history: who called conn.Close(), in order: "Connect" | "Close"
    ioFailed,   \* history: a conn.Read or conn.Write of the current RunCommand returned an error
    usedAfter,  \* history: conn.Read or conn.Write was called on a connection already closed
    broken      \* a conn.Write failed: the connection is broken and every later one fails

lenVars == <<lenPc, lenIn, lenWire, lenOut, lenUsed>>

sentVars == <<sentPc, sentIn, sentWords, sentWire, sentOut>>

sessVars == <<pc, towrite, words, reply, err, out, nreq, ncalls,
              stream, peerClosed, peerLog, lastRead, overlap, rlen>>

wordVars == <<wordPc, wordsIn, wordWire, wordsOut, wordSent>>

frameVars == <<framePc, frameWire, frameWord>>

cliVars == <<cpc, conn, cret, cerr, runs, closeLog, ioFailed, usedAfter, broken>>

vars == <<lenPc, lenIn, lenWire, lenOut, lenUsed,
          sentPc, sentIn, sentWords, sentWire, sentOut,
          pc, towrite, words, reply, err, out, nreq, ncalls,
          stream, peerClosed, peerLog, lastRead, overlap, rlen,
          wordPc, wordsIn, wordWire, wordsOut, wordSent,
          framePc, frameWire, frameWord,
          cpc, conn, cret, cerr, runs, closeLog, ioFailed, usedAfter, broken>>

-----------------------------------------------------------------------------
\* Bit operations on bytes and int64 arithmetic on 8-byte tuples.

RECURSIVE BitAnd(_, _)
BitAnd(a, b) ==
    IF a = 0 \/ b = 0 THEN 0
    ELSE (IF a % 2 = 1 /\ b % 2 = 1 THEN 1 ELSE 0) + 2 * BitAnd(a \div 2, b \div 2)

RECURSIVE BitOr(_, _)
BitOr(a, b) ==
    IF a = 0 THEN b
    ELSE IF b = 0 THEN a
    ELSE (IF a % 2 = 1 \/ b % 2 = 1 THEN 1 ELSE 0) + 2 * BitOr(a \div 2, b \div 2)

\* The int64 whose low bytes are the big-endian sequence s (Len(s) <= 8).
Lit(s) == [i \in 1..8 |-> IF i > 8 - Len(s) THEN s[i - (8 - Len(s))] ELSE 0]

\* int64(n) for a small natural n (a word's len()).
FromNat(n) ==
    [i \in 1..8 |-> CASE i = 8 -> n % 256
                      [] i = 7 -> (n \div 256) % 256
                      [] i = 6 -> (n \div 65536) % 256
                      [] i = 5 -> (n \div 16777216) % 256
                      [] OTHER -> 0]

\* The natural a small non-negative int64 stands for (make([]byte, length)).
ToNat(x) == ((x[5] * 256 + x[6]) * 256 + x[7]) * 256 + x[8]

Negative(x) == x[1] >= 128

RECURSIVE LexLess(_, _, _)
LexLess(x, y, i) ==
    IF i > 8 THEN FALSE
    ELSE IF x[i] # y[i] THEN x[i] < y[i]
    ELSE LexLess(x, y, i + 1)

\* x < y on int64.
Less(x, y) ==
    IF Negative(x) # Negative(y) THEN Negative(x) ELSE LexLess(x, y, 1)

\* x | y on int64.
Or64(x, y) == [i \in 1..8 |-> BitOr(x[i], y[i])]

\* x >> (8 * k) on int64 (arithmetic shift).
Shr8(x, k) ==
    [i \in 1..8 |-> IF i - k >= 1 THEN x[i - k] ELSE IF Negative(x) THEN 255 ELSE 0]

\* x << 8 on int64.
Shl8(x) == [i \in 1..8 |-> IF i < 8 THEN x[i + 1] ELSE 0]

RECURSIVE Carry(_, _, _)
\* The carry into byte i (1 = most significant) of x + y.
Carry(x, y, i) ==
    IF i = 8 THEN 0
    ELSE (x[i + 1] + y[i + 1] + Carry(x, y, i + 1)) \div 256

\* x + y on int64, wrapping.
Add64(x, y) == [i \in 1..8 |-> (x[i] + y[i] + Carry(x, y, i)) % 256]

\* byte(x): the conversion keeps the low 8 bits.
ToByte(x) == x[8]

\* x & y and ^x on int64.
And64(x, y) == [i \in 1..8 |-> BitAnd(x[i], y[i])]

Not64(x) == [i \in 1..8 |-> 255 - x[i]]

-----------------------------------------------------------------------------
\* Length codec.

\* write_length(conn, length): the bytes it hands to conn.Write.
write_length_short(length) ==
    \* a slip: the two-byte form is chosen up to 0x7FFF, not 0x3FFF
    LET l2 == Or64(length, Lit(<<128, 0>>))
        l3 == Or64(length, Lit(<<192, 0, 0>>))
        l4 == Or64(length, Lit(<<224, 0, 0, 0>>))
    IN  CASE Less(length, Lit(<<128>>)) ->
               <<ToByte(length)>>
          [] ~Less(length, Lit(<<128>>)) /\ Less(length, Lit(<<128, 0>>)) ->
               <<BitAnd(ToByte(Shr8(l2, 1)), 255), BitAnd(ToByte(l2), 255)>>
          [] ~Less(length, Lit(<<128, 0>>)) /\ Less(length, Lit(<<32, 0, 0>>)) ->
               <<BitAnd(ToByte(Shr8(l3, 2)), 255), BitAnd(ToByte(Shr8(l3, 1)), 255),
                 BitAnd(ToByte(l3), 255)>>
          [] ~Less(length, Lit(<<32, 0, 0>>)) /\ Less(length, Lit(<<16, 0, 0, 0>>)) ->
               <<BitAnd(ToByte(Shr8(l4, 3)), 255), BitAnd(ToByte(Shr8(l4, 2)), 255),
                 BitAnd(ToByte(Shr8(l4, 1)), 255), BitAnd(ToByte(l4), 255)>>
          [] OTHER ->
               <<240, BitAnd(ToByte(Shr8(length, 3)), 255),
                 BitAnd(ToByte(Shr8(length, 2)), 255),
                 BitAnd(ToByte(Shr8(length, 1)), 255), BitAnd(ToByte(length), 255)>>

write_length(length) ==
    LET l2 == Or64(length, Lit(<<128, 0>>))           \* length |= 0x8000
        l3 == Or64(length, Lit(<<192, 0, 0>>))        \* length |= 0xC00000
        l4 == Or64(length, Lit(<<224, 0, 0, 0>>))     \* length |= 0xE0000000
    IN  CASE Less(length, Lit(<<128>>)) ->                           \* < 0x80
               <<ToByte(length)>>
          [] ~Less(length, Lit(<<128>>)) /\ Less(length, Lit(<<64, 0>>)) ->    \* < 0x4000
               <<BitAnd(ToByte(Shr8(l2, 1)), 255), BitAnd(ToByte(l2), 255)>>
          [] ~Less(length, Lit(<<64, 0>>)) /\ Less(length, Lit(<<32, 0, 0>>)) ->  \* < 0x200000
               <<BitAnd(ToByte(Shr8(l3, 2)), 255), BitAnd(ToByte(Shr8(l3, 1)), 255),
                 BitAnd(ToByte(l3), 255)>>
          [] ~Less(length, Lit(<<32, 0, 0>>)) /\ Less(length, Lit(<<16, 0, 0, 0>>)) ->  \* < 0x10000000
               <<BitAnd(ToByte(Shr8(l4, 3)), 255), BitAnd(ToByte(Shr8(l4, 2)), 255),
                 BitAnd(ToByte(Shr8(l4, 1)), 255), BitAnd(ToByte(l4), 255)>>
          [] OTHER ->
               <<240, BitAnd(ToByte(Shr8(length, 3)), 255),
                 BitAnd(ToByte(Shr8(length, 2)), 255),
                 BitAnd(ToByte(Shr8(length, 1)), 255), BitAnd(ToByte(length), 255)>>

\* read_byte(conn) on the stream s at position i: conn.Read fills a fresh
\* one-byte buffer; at the end of the stream it reads nothing, the error is
\* dropped and the buffer's zero is returned.
read_byte(s, i) == Lit(<<IF i <= Len(s) THEN s[i] ELSE 0>>)

\* The masks and markers of read_length: 0x00, 0x80, 0xC0, 0xE0, 0xF0, 0xF8.
X00 == Lit(<<0>>)
X80 == Lit(<<128>>)
XC0 == Lit(<<192>>)
XE0 == Lit(<<224>>)
XF0 == Lit(<<240>>)
XF8 == Lit(<<248>>)

\* read_length(conn) on the stream s: the decoded length and the number of
\* read_byte calls made.
read_length_keepmark(s) ==
    \* a slip: the marker bits of the first byte are not masked off
    LET b1 == read_byte(s, 1)
        next(acc, i) == Add64(Shl8(acc), read_byte(s, i))
    IN  IF And64(b1, X80) = X00 THEN
               [length |-> b1, used |-> 1]
        ELSE IF And64(b1, XC0) = X80 THEN
               [length |-> next(b1, 2), used |-> 2]
        ELSE IF And64(b1, XE0) = XC0 THEN
               [length |-> next(next(b1, 2), 3), used |-> 3]
        ELSE IF And64(b1, XF0) = XE0 THEN
               [length |-> next(next(next(b1, 2), 3), 4), used |-> 4]
        ELSE IF And64(b1, XF8) = XF0 THEN
               [length |-> next(next(next(read_byte(s, 2), 3), 4), 5), used |-> 5]
        ELSE   [length |-> b1, used |-> 1]

read_length(s) ==
    LET b1 == read_byte(s, 1)
        clear(x, m) == And64(x, Not64(m))                   \* length &= ^m
        next(acc, i) == Add64(Shl8(acc), read_byte(s, i))   \* length <<= 8; length += read_byte(conn)
    IN  IF And64(b1, X80) = X00 THEN                        \* (length & 0x80) == 0x00
               [length |-> b1, used |-> 1]
        ELSE IF And64(b1, XC0) = X80 THEN                   \* (length & 0xC0) == 0x80
               [length |-> next(clear(b1, XC0), 2), used |-> 2]
        ELSE IF And64(b1, XE0) = XC0 THEN                   \* (length & 0xE0) == 0xC0
               [length |-> next(next(clear(b1, XE0), 2), 3), used |-> 3]
        ELSE IF And64(b1, XF0) = XE0 THEN                   \* (length & 0xF0) == 0xE0
               [length |-> next(next(next(clear(b1, XF0), 2), 3), 4), used |-> 4]
        ELSE IF And64(b1, XF8) = XF0 THEN                   \* (length & 0xF8) == 0xF0
               [length |-> next(next(next(read_byte(s, 2), 3), 4), 5), used |-> 5]
        ELSE   [length |-> b1, used |-> 1]                  \* no case: the first byte itself

\* The lengths the codec is exercised on: every int64 0 <= n < 2^40 whose
\* bytes are drawn from SampleBytes, which holds the marker bits and their
\* neighbours, so every band boundary (0, 0x7F, 0x80, 0x3FFF, 0x4000,
\* 0x1FFFFF, 0x200000, 0xFFFFFFF, 0x10000000, 0xFFFFFFFF) is among them.
SampleBytes == {0, 15, 16, 31, 32, 63, 64, 127, 128, 255}

Lengths ==
    { Lit(<<b4, b3, b2, b1, b0>>) :
        b4 \in {0, 1}, b3 \in SampleBytes, b2 \in SampleBytes,
        b1 \in SampleBytes, b0 \in SampleBytes }

NoLength == Lit(<<>>)

LenInit ==
    /\ lenPc = "start"
    /\ lenIn \in Lengths
    /\ lenWire = <<>>
    /\ lenOut = NoLength
    /\ lenUsed = 0

\* write_length(conn, lenIn)
WriteLength ==
    /\ lenPc = "start"
    /\ lenWire' = write_length(lenIn)
    /\ lenPc' = "written"
    /\ UNCHANGED <<lenIn, lenOut, lenUsed>>

\* read_length(conn) on the bytes just written
ReadLength ==
    /\ lenPc = "written"
    /\ lenOut' = read_length(lenWire).length
    /\ lenUsed' = read_length(lenWire).used
    /\ lenPc' = "read"
    /\ UNCHANGED <<lenIn, lenWire>>


\* uint32 range: bytes above the low four are zero.
FitsU32(x) == x[1] = 0 /\ x[2] = 0 /\ x[3] = 0 /\ x[4] = 0

\* C6: for every length n with 0 <= n <= 0xFFFFFFFF, read_length applied to
\* the bytes write_length(n) emitted returns n and consumes exactly those bytes.
C6_LengthRoundTrip ==
    (lenPc = "read" /\ FitsU32(lenIn)) =>
        (lenOut = lenIn /\ lenUsed = Len(lenWire))

\* C6 witness: the round trip has run on the 5-byte boundary 0xFFFFFFFF.
C6_Witness ==
    lenPc = "read" /\ lenIn = Lit(<<255, 255, 255, 255>>) /\ Len(lenWire) = 5

\* C7 (as amended): write_length selects the narrowest form.  The bytes the
\* claim mandates for n, read off n's own bytes: 1 byte for 0..0x7F, 2 for
\* 0x80..0x3FFF (marker 10), 3 for 0x4000..0x1FFFFF (marker 110), 4 for
\* 0x200000..0xFFFFFFF (marker 1110), and 0xF0 plus the low four bytes above.
BandBytes(x) ==
    CASE FitsU32(x) /\ x[5] = 0 /\ x[6] = 0 /\ x[7] = 0 /\ x[8] < 128 ->
           <<x[8]>>
      [] FitsU32(x) /\ x[5] = 0 /\ x[6] = 0 /\ (x[7] # 0 \/ x[8] >= 128) /\ x[7] < 64 ->
           <<128 + x[7], x[8]>>
      [] FitsU32(x) /\ x[5] = 0 /\ (x[6] # 0 \/ x[7] >= 64) /\ x[6] < 32 ->
           <<192 + x[6], x[7], x[8]>>
      [] FitsU32(x) /\ (x[5] # 0 \/ x[6] >= 32) /\ x[5] < 16 ->
           <<224 + x[5], x[6], x[7], x[8]>>
      [] OTHER ->
           <<240, x[5], x[6], x[7], x[8]>>

\* The value held in the bits of an encoded length that follow the marker.
ValueBits(w) ==
    CASE Len(w) = 1 -> Lit(w)
      [] Len(w) = 2 -> Lit(<<w[1] - 128, w[2]>>)
      [] Len(w) = 3 -> Lit(<<w[1] - 192, w[2], w[3]>>)
      [] Len(w) = 4 -> Lit(<<w[1] - 224, w[2], w[3], w[4]>>)
      [] OTHER -> Lit(Tail(w))

\* The low 32 bits of an int64.
Low32(x) == Lit(<<x[5], x[6], x[7], x[8]>>)

\* C7 (amended): write_length(n) emits exactly the narrowest band's bytes,
\* and the bits after the marker hold n when n <= 0xFFFFFFFF and the low 32
\* bits of n when n is larger.
C7_NarrowestBand ==
    lenPc # "start" =>
        /\ lenWire = BandBytes(lenIn)
        /\ ValueBits(lenWire) = Low32(lenIn)
        /\ FitsU32(lenIn) => ValueBits(lenWire) = lenIn

\* C7 witness: the 3-byte band's lower boundary 0x4000 has been encoded.
C7_Witness ==
    lenPc = "written" /\ lenIn = Lit(<<64, 0>>) /\ lenWire = <<192, 64, 0>>

\* C7 as stated: for every n, including 0x10000000 "and above" without
\* limit, the bits after the marker hold the value n.
C7_Original ==
    lenPc # "start" =>
        (lenWire = BandBytes(lenIn) /\ ValueBits(lenWire) = lenIn)

-----------------------------------------------------------------------------
\* Words and sentences.

\* "=" and "\n"
EqualsSign == 61
NewLine == 10

\* type Sentence struct { Command string; Attributes map[string]string }
\* Sentence{} is the no-data sentence.
EmptySentence == [Command |-> <<>>, Attributes |-> <<>>]

\* write_word(conn, word): the bytes written, the encoded length then the word.
write_word(word) == write_length(FromNat(Len(word))) \o word

\* fmt.Sprintf("%s=%s", attribute, value)
AttributeWord(attribute, value) == attribute \o <<EqualsSign>> \o value

\* write_sentence(conn, sentence): the words handed to write_word, when the
\* range over the Attributes map visits the keys in the order `order`.
write_sentence(sentence, order) ==
    <<sentence.Command>>
    \o [i \in 1..Len(order) |-> AttributeWord(order[i], sentence.Attributes[order[i]])]
    \o << <<>> >>

\* The orders in which a range over a map with key set D can visit it.
Orders(D) ==
    { o \in [1..Cardinality(D) -> D] : \A i, j \in 1..Cardinality(D) : o[i] = o[j] => i = j }

\* The buffers the write_word calls for the words ws hand to conn.Write,
\* in order: for each word the encoded length (write_length) and then the
\* bytes of the word.
write_calls(ws) ==
    [i \in 1..(2 * Len(ws)) |->
        IF i % 2 = 1 THEN write_length(FromNat(Len(ws[(i + 1) \div 2])))
        ELSE ws[i \div 2]]

RECURSIVE Flatten(_)
\* The bytes of a sequence of write_word calls.
Flatten(ws) == IF ws = <<>> THEN <<>> ELSE write_word(Head(ws)) \o Flatten(Tail(ws))

\* regexp "^(=.*)(?:=(.*))$": the word starts with "=", holds a later "=",
\* and no "\n" (which "." does not match).
Matches(word) ==
    /\ Len(word) >= 2
    /\ word[1] = EqualsSign
    /\ \E i \in 2..Len(word) : word[i] = EqualsSign
    /\ \A i \in 1..Len(word) : word[i] # NewLine

\* Where the regexp splits a matching word: the first group is greedy, so
\* the separator is the LAST "=" of the word.
SplitFirst(word) ==
    \* the split the documentation asks for: the first "=" after the sigil
    CHOOSE i \in 2..Len(word) :
        word[i] = EqualsSign /\ \A j \in 2..(i - 1) : word[j] # EqualsSign

SplitAt(word) ==
    CHOOSE i \in 2..Len(word) :
        word[i] = EqualsSign /\ \A j \in (i + 1)..Len(word) : word[j] # EqualsSign

\* matches[1] and matches[2]
AttrName(word) == SubSeq(word, 1, SplitAt(word) - 1)

AttrValue(word) == SubSeq(word, SplitAt(word) + 1, Len(word))

\* parse_sentence panics when a word after the command does not match:
\* FindStringSubmatch returns nil and matches[1] is out of range.
parse_panics(ws) == \E i \in 2..Len(ws) : ~Matches(ws[i])

\* parse_sentence(ws), when it does not panic: a later word overwrites an
\* earlier one of the same name.
parse_sentence(ws) ==
    IF Len(ws) = 0 THEN EmptySentence
    ELSE LET names == { AttrName(ws[i]) : i \in 2..Len(ws) }
             last(n) == CHOOSE i \in 2..Len(ws) :
                            /\ AttrName(ws[i]) = n
                            /\ \A j \in (i + 1)..Len(ws) : AttrName(ws[j]) # n
         IN  [Command |-> ws[1],
              Attributes |-> [n \in names |-> AttrValue(ws[last(n)])]]

Min(a, b) == IF a < b THEN a ELSE b

\* make([]byte, n): n zero bytes.
Zeros(n) == [i \in 1..n |-> 0]

\* read_word(conn) when the bytes s are what the connection can hand over
\* now: read_length, then ONE conn.Read into a buffer of that length.  The
\* count conn.Read returns is dropped, so a read that obtains fewer bytes
\* leaves the rest of the buffer zero.  word: the string returned; used: the
\* bytes taken off the stream; got: the payload bytes conn.Read obtained.
read_word_oneprefix(s) ==
    \* a slip: the length prefix is taken to be one byte wide
    LET rl == read_length(s)
        n == ToNat(rl.length)
        prefix == Min(1, Len(s))
        got == Min(n, Len(s) - prefix)
    IN  [word |-> SubSeq(s, prefix + 1, prefix + got) \o Zeros(n - got),
         length |-> n,
         got |-> got,
         used |-> prefix + got]

read_word(s) ==
    LET rl == read_length(s)
        n == ToNat(rl.length)
        prefix == Min(rl.used, Len(s))
        got == Min(n, Len(s) - prefix)
    IN  [word |-> SubSeq(s, prefix + 1, prefix + got) \o Zeros(n - got),
         length |-> n,
         got |-> got,
         used |-> prefix + got]

RECURSIVE read_words(_, _)
\* The loop of read_sentence on a stream s that ends after its last byte:
\* the words collected up to the first empty word.
read_words(s, ws) ==
    LET w == read_word(s)
    IN  IF Len(w.word) = 0 THEN ws
        ELSE read_words(SubSeq(s, w.used + 1, Len(s)), Append(ws, w.word))

RECURSIVE read_words_used(_)
\* How many bytes of s that loop takes off the connection: those of the
\* words up to and including the first empty word.
read_words_used(s) ==
    LET w == read_word(s)
    IN  IF Len(w.word) = 0 THEN w.used
        ELSE w.used + read_words_used(SubSeq(s, w.used + 1, Len(s)))

\* read_sentence(conn) on such a stream.
read_sentence_panics(s) == parse_panics(read_words(s, <<>>))

read_sentence(s) == parse_sentence(read_words(s, <<>>))

\* The sentences the codec is exercised on.  Commands "/login" and "!re";
\* attribute names "=.id", "=ret", ".tag" and ""; values "*1", "" and "a=b".
Commands == { <<47, 108, 111, 103, 105, 110>>, <<33, 114, 101>> }

AttrNames == { <<61, 46, 105, 100>>, <<61, 114, 101, 116>>, <<46, 116, 97, 103>>, <<>> }

AttrValues == { <<42, 49>>, <<>>, <<97, 61, 98>> }

Sentences ==
    { [Command |-> c, Attributes |-> a] :
        c \in Commands, a \in UNION { [D -> AttrValues] : D \in SUBSET AttrNames } }

SentInit ==
    /\ sentPc = "start"
    /\ sentIn \in Sentences
    /\ sentWords = <<>>
    /\ sentWire = <<>>
    /\ sentOut = EmptySentence

\* write_sentence(conn, sentIn), the map being ranged over in some order
WriteSentence ==
    /\ sentPc = "start"
    /\ \E order \in Orders(DOMAIN sentIn.Attributes) :
          /\ sentWords' = write_sentence(sentIn, order)
          /\ sentWire' = Flatten(write_sentence(sentIn, order))
    /\ sentPc' = "written"
    /\ UNCHANGED <<sentIn, sentOut>>

\* read_sentence(conn) on the bytes just written: it returns a Sentence ...
ReadSentence ==
    /\ sentPc = "written"
    /\ ~read_sentence_panics(sentWire)
    /\ sentOut' = read_sentence(sentWire)
    /\ sentPc' = "read"
    /\ UNCHANGED <<sentIn, sentWords, sentWire>>

\* ... or panics in parse_sentence
ReadSentencePanic ==
    /\ sentPc = "written"
    /\ read_sentence_panics(sentWire)
    /\ sentPc' = "panic"
    /\ UNCHANGED <<sentIn, sentWords, sentWire, sentOut>>

-----------------------------------------------------------------------------
\* The session: Client.RunCommand against a peer.

\* Bounds of the session model.
MaxSentences == 2
MaxShortReads == 1

Callers == {1, 2}

\* "!done", "!trap", "!re"
Done == <<33, 100, 111, 110, 101>>
Trap == <<33, 116, 114, 97, 112>>
Re == <<33, 114, 101>>

\* "=message", "=.id"
MessageAttr == <<61, 109, 101, 115, 115, 97, 103, 101>>
IdAttr == <<61, 46, 105, 100>>

\* A Go error: nil, or errors.New(text).
NilError == [nil |-> TRUE, text |-> <<>>]

errors_New(text) == [nil |-> FALSE, text |-> text]

\* m[key] on a Go map: the zero value "" when the key is absent.
Lookup(m, key) == IF key \in DOMAIN m THEN m[key] ELSE <<>>

\* The command a caller runs: "/set" with {"=.id": "*1"}.
Requests ==
    { [Command |-> <<47, 115, 101, 116>>, Attributes |-> [n \in {IdAttr} |-> <<42, 49>>]] }

\* The sentences the peer may send, in any sequence: !done; !re with
\* =.id=*1; !trap with =message=no; !trap with =message=a=b; and the
\* no-data sentence (a lone zero-length word).
PeerSentences ==
    { [Command |-> Done, Attributes |-> <<>>],
      [Command |-> Re, Attributes |-> [n \in {IdAttr} |-> <<42, 49>>]],
      [Command |-> Trap, Attributes |-> [n \in {MessageAttr} |-> <<110, 111>>]],
      [Command |-> Trap, Attributes |-> [n \in {MessageAttr} |-> <<97, 61, 98>>]],
      EmptySentence }

\* The bytes of a sentence as the peer frames it: the no-data sentence is a
\* lone zero-length word.
PeerBytes(s) ==
    IF s = EmptySentence THEN <<0>>
    ELSE Flatten(write_sentence(s, CHOOSE o \in Orders(DOMAIN s.Attributes) : TRUE))

RECURSIVE PeerStream(_)
\* The bytes of a sequence of sentences.
PeerStream(ss) == IF ss = <<>> THEN <<>> ELSE PeerBytes(Head(ss)) \o PeerStream(Tail(ss))

\* What the peer may answer a request with: any sequence of one to
\* MaxSentences sentences.
PeerAnswers == UNION { [1..n -> PeerSentences] : n \in 1..MaxSentences }

NoRead == [length |-> 0, got |-> 0, eof |-> FALSE, short |-> 0]

SessInit ==
    /\ pc = [c \in Callers |-> "idle"]
    /\ towrite = [c \in Callers |-> <<>>]
    /\ words = [c \in Callers |-> <<>>]
    /\ reply = [c \in Callers |-> <<>>]
    /\ err = [c \in Callers |-> NilError]
    /\ out = <<>>
    /\ nreq = 0
    /\ ncalls = 0
    /\ stream = <<>>
    /\ peerClosed = FALSE
    /\ peerLog = <<>>
    /\ lastRead = NoRead
    /\ overlap = FALSE
    /\ rlen = [c \in Callers |-> <<>>]

\* RunCommand(command) is entered: reply and err are fresh, and
\* write_sentence starts; the range over the map fixes an order.
Call(c) ==
    /\ pc[c] = "idle"
    /\ \E command \in Requests :
         \E order \in Orders(DOMAIN command.Attributes) :
            towrite' = [towrite EXCEPT ![c] = write_calls(write_sentence(command, order))]
    /\ pc' = [pc EXCEPT ![c] = "write"]
    /\ words' = [words EXCEPT ![c] = <<>>]
    /\ reply' = [reply EXCEPT ![c] = <<>>]
    /\ err' = [err EXCEPT ![c] = NilError]
    /\ ncalls' = ncalls + 1
    /\ UNCHANGED <<out, nreq, stream, peerClosed, peerLog, lastRead, rlen>>
    /\ overlap' = (overlap \/ \E d \in Callers \ {c} : pc[d] \in {"write", "read"})

\* The next conn.Write of write_sentence: the length of a word
\* (write_length) or its bytes (write_word).  The request is whole on the
\* wire once the length of the terminating empty word is written; after
\* the last conn.Write RunCommand enters its read loop.
ConnWrite_locked(c) ==
    \* a variant: the Client holds a lock while a sentence is written
    /\ pc[c] = "write"
    /\ \A d \in Callers \ {c} : pc[d] # "write"
    /\ out' = out \o Head(towrite[c])
    /\ towrite' = [towrite EXCEPT ![c] = Tail(towrite[c])]
    /\ nreq' = IF Len(towrite[c]) = 2 THEN nreq + 1 ELSE nreq
    /\ pc' = [pc EXCEPT ![c] = IF Len(towrite[c]) = 1 THEN "read" ELSE "write"]
    /\ UNCHANGED <<words, reply, err, ncalls, stream, peerClosed, peerLog, lastRead, overlap, rlen>>

ConnWrite(c) ==
    /\ pc[c] = "write"
    /\ out' = out \o Head(towrite[c])
    /\ towrite' = [towrite EXCEPT ![c] = Tail(towrite[c])]
    /\ nreq' = IF Len(towrite[c]) = 2 THEN nreq + 1 ELSE nreq
    /\ pc' = [pc EXCEPT ![c] = IF Len(towrite[c]) = 1 THEN "read" ELSE "write"]
    /\ UNCHANGED <<words, reply, err, ncalls, stream, peerClosed, peerLog, lastRead, overlap, rlen>>

\* The body of RunCommand's loop for the sentence read_sentence returned:
\* the caller's next pc, reply and err.
loop_body_nocontinue(c, sentence) ==
    \* a slip: the no-data sentence is not skipped
    [pc |-> IF sentence.Command = Done THEN "returned" ELSE "read",
     reply |-> Append(reply[c], sentence),
     err |-> IF sentence.Command = Trap
               THEN errors_New(Lookup(sentence.Attributes, MessageAttr))
               ELSE err[c]]

loop_body_breakontrap(c, sentence) ==
    \* a slip: a trap ends the loop
    IF Len(sentence.Command) = 0
      THEN [pc |-> "read", reply |-> reply[c], err |-> err[c]]
      ELSE [pc |-> IF sentence.Command \in {Done, Trap} THEN "returned" ELSE "read",
            reply |-> Append(reply[c], sentence),
            err |-> IF sentence.Command = Trap
                      THEN errors_New(Lookup(sentence.Attributes, MessageAttr))
                      ELSE err[c]]

loop_body_errreset(c, sentence) ==
    \* a slip: err is assigned on every sentence
    IF Len(sentence.Command) = 0
      THEN [pc |-> "read", reply |-> reply[c], err |-> err[c]]
      ELSE [pc |-> IF sentence.Command = Done THEN "returned" ELSE "read",
            reply |-> Append(reply[c], sentence),
            err |-> IF sentence.Command = Trap
                      THEN errors_New(Lookup(sentence.Attributes, MessageAttr))
                      ELSE NilError]

loop_body(c, sentence) ==
    IF Len(sentence.Command) = 0
      THEN [pc |-> "read", reply |-> reply[c], err |-> err[c]]        \* continue
      ELSE [pc |-> IF sentence.Command = Done THEN "returned" ELSE "read",
            reply |-> Append(reply[c], sentence),
            err |-> IF sentence.Command = Trap
                      THEN errors_New(Lookup(sentence.Attributes, MessageAttr))
                      ELSE err[c]]

\* read_sentence and RunCommand's loop once read_word has returned `word`:
\* a non-empty word is appended to `words`; an empty word ends the
\* sentence: parse_sentence runs (and may panic) and the loop body handles
\* the result.
TakeWord(c, word) ==
    IF Len(word) # 0
      THEN /\ words' = [words EXCEPT ![c] = Append(words[c], word)]
           /\ UNCHANGED <<pc, reply, err>>
      ELSE IF parse_panics(words[c])
      THEN /\ pc' = [pc EXCEPT ![c] = "panic"]
           /\ UNCHANGED <<words, reply, err>>
      ELSE LET r == loop_body(c, parse_sentence(words[c]))
           IN  /\ pc' = [pc EXCEPT ![c] = r.pc]
               /\ reply' = [reply EXCEPT ![c] = r.reply]
               /\ err' = [err EXCEPT ![c] = r.err]
               /\ words' = [words EXCEPT ![c] = <<>>]

\* Whether read_length, having read the bytes p, has read all the bytes
\* of the length: the first byte tells how many there are.
LengthRead(p) == Len(p) >= 1 /\ Len(p) = read_length(p).used

\* A read_byte of read_length by caller c, inside RunCommand's loop:
\* conn.Read waits for a byte and takes the first one unread, whoever it
\* was meant for.  At the end of the stream (the peer closed and nothing
\* is unread) conn.Read fails, read_byte drops the error and returns the
\* byte 0 its buffer was made with.
ReadByte(c) ==
    /\ pc[c] = "read"
    /\ ~LengthRead(rlen[c])
    /\ stream # <<>> \/ peerClosed
    /\ rlen' = [rlen EXCEPT ![c] = Append(rlen[c], IF stream # <<>> THEN Head(stream) ELSE 0)]
    /\ stream' = IF stream # <<>> THEN Tail(stream) ELSE stream
    /\ UNCHANGED <<pc, towrite, words, reply, err, out, nreq, ncalls, peerClosed,
                   peerLog, lastRead, overlap>>

\* The conn.Read(data) of read_word by caller c, the length being read: a
\* zero-length buffer returns at once; otherwise conn.Read waits for a
\* byte, or for the end of the stream, and returns what has arrived, `got`
\* bytes, the rest of data staying zero (read_word drops the count and the
\* error).  What has arrived is all the peer has sent or, for at most
\* MaxShortReads reads of the session, fewer bytes, one of `cuts` (a
\* segment ends there).  The read is at the end of the stream (eof) when
\* the peer closed and it takes all that is unread.
ReadData(c, cuts) ==
    /\ pc[c] = "read"
    /\ LengthRead(rlen[c])
    /\ LET n == ToNat(read_length(rlen[c]).length)
           most == Min(n, Len(stream))
       IN  /\ n = 0 \/ stream # <<>> \/ peerClosed
           /\ \E got \in (IF lastRead.short < MaxShortReads
                          THEN cuts \cap (1..(most - 1)) ELSE {}) \cup {most} :
                 /\ stream' = SubSeq(stream, got + 1, Len(stream))
                 /\ lastRead' = [length |-> n, got |-> got,
                                 eof |-> peerClosed /\ got = Len(stream),
                                 short |-> lastRead.short + (IF got < most THEN 1 ELSE 0)]
                 /\ TakeWord(c, SubSeq(stream, 1, got) \o Zeros(n - got))
    /\ rlen' = [rlen EXCEPT ![c] = <<>>]
    /\ UNCHANGED <<towrite, out, nreq, ncalls, peerClosed, peerLog, overlap>>

\* conn.Read(data) where a segment may end after any byte.
ReadDataAny(c) == ReadData(c, 1..Len(stream))

\* conn.Read(data) where a segment may end after the first byte.
ReadDataFirst(c) == ReadData(c, {1})

\* The peer, having received a request, answers it with some sentences.
PeerSend ==
    /\ nreq > 0
    /\ ~peerClosed
    /\ Len(peerLog) = 0
    /\ \E answer \in PeerAnswers :
          /\ stream' = stream \o PeerStream(answer)
          /\ peerLog' = peerLog \o answer
    /\ UNCHANGED <<pc, towrite, words, reply, err, out, nreq, ncalls,
                   peerClosed, lastRead, overlap, rlen>>

\* The peer closes its end of the stream.
PeerClose ==
    /\ ~peerClosed
    /\ peerClosed' = TRUE
    /\ UNCHANGED <<pc, towrite, words, reply, err, out, nreq, ncalls, stream,
                   peerLog, lastRead, overlap, rlen>>

-----------------------------------------------------------------------------
\* crypto/md5 and encoding/hex, as Connect uses them.  A 32-bit word is a
\* tuple of 4 bytes, most significant first.

RECURSIVE BitXor(_, _)
BitXor(a, b) ==
    IF a = 0 THEN b
    ELSE IF b = 0 THEN a
    ELSE (IF a % 2 # b % 2 THEN 1 ELSE 0) + 2 * BitXor(a \div 2, b \div 2)

And32(x, y) == <<BitAnd(x[1], y[1]), BitAnd(x[2], y[2]), BitAnd(x[3], y[3]), BitAnd(x[4], y[4])>>

Or32(x, y) == <<BitOr(x[1], y[1]), BitOr(x[2], y[2]), BitOr(x[3], y[3]), BitOr(x[4], y[4])>>

Xor32(x, y) == <<BitXor(x[1], y[1]), BitXor(x[2], y[2]), BitXor(x[3], y[3]), BitXor(x[4], y[4])>>

Not32(x) == <<255 - x[1], 255 - x[2], 255 - x[3], 255 - x[4]>>

\* x + y modulo 2^32.
Add32(x, y) ==
    LET c4 == (x[4] + y[4]) \div 256
        c3 == (x[3] + y[3] + c4) \div 256
        c2 == (x[2] + y[2] + c3) \div 256
    IN  <<(x[1] + y[1] + c2) % 256, (x[2] + y[2] + c3) % 256,
          (x[3] + y[3] + c4) % 256, (x[4] + y[4]) % 256>>

Pow2(n) == IF n = 0 THEN 1 ELSE IF n = 1 THEN 2 ELSE IF n = 2 THEN 4
           ELSE IF n = 3 THEN 8 ELSE IF n = 4 THEN 16 ELSE IF n = 5 THEN 32
           ELSE IF n = 6 THEN 64 ELSE IF n = 7 THEN 128 ELSE 256

\* x rotated left by s bits (0 < s < 32).
RotL32(x, s) ==
    LET q == s \div 8
        r == s % 8
        at(i) == x[((i - 1 + q) % 4) + 1]       \* rotated by whole bytes
        byte(i) == ((at(i) * Pow2(r)) % 256) + (at((i % 4) + 1) \div Pow2(8 - r))
    IN  <<byte(1), byte(2), byte(3), byte(4)>>

\* The per-round shift amounts and the constants floor(2^32 * abs(sin(i))).
Md5S ==
    <<7, 12, 17, 22, 7, 12, 17, 22, 7, 12, 17, 22, 7, 12, 17, 22,
      5, 9, 14, 20, 5, 9, 14, 20, 5, 9, 14, 20, 5, 9, 14, 20,
      4, 11, 16, 23, 4, 11, 16, 23, 4, 11, 16, 23, 4, 11, 16, 23,
      6, 10, 15, 21, 6, 10, 15, 21, 6, 10, 15, 21, 6, 10, 15, 21>>

Md5K ==
    <<<<215, 106, 164, 120>>, <<232, 199, 183, 86>>, <<36, 32, 112, 219>>,
      <<193, 189, 206, 238>>, <<245, 124, 15, 175>>, <<71, 135, 198, 42>>,
      <<168, 48, 70, 19>>, <<253, 70, 149, 1>>, <<105, 128, 152, 216>>,
      <<139, 68, 247, 175>>, <<255, 255, 91, 177>>, <<137, 92, 215, 190>>,
      <<107, 144, 17, 34>>, <<253, 152, 113, 147>>, <<166, 121, 67, 142>>,
      <<73, 180, 8, 33>>, <<246, 30, 37, 98>>, <<192, 64, 179, 64>>,
      <<38, 94, 90, 81>>, <<233, 182, 199, 170>>, <<214, 47, 16, 93>>,
      <<2, 68, 20, 83>>, <<216, 161, 230, 129>>, <<231, 211, 251, 200>>,
      <<33, 225, 205, 230>>, <<195, 55, 7, 214>>, <<244, 213, 13, 135>>,
      <<69, 90, 20, 237>>, <<169, 227, 233, 5>>, <<252, 239, 163, 248>>,
      <<103, 111, 2, 217>>, <<141, 42, 76, 138>>, <<255, 250, 57, 66>>,
      <<135, 113, 246, 129>>, <<109, 157, 97, 34>>, <<253, 229, 56, 12>>,
      <<164, 190, 234, 68>>, <<75, 222, 207, 169>>, <<246, 187, 75, 96>>,
      <<190, 191, 188, 112>>, <<40, 155, 126, 198>>, <<234, 161, 39, 250>>,
      <<212, 239, 48, 133>>, <<4, 136, 29, 5>>, <<217, 212, 208, 57>>,
      <<230, 219, 153, 229>>, <<31, 162, 124, 248>>, <<196, 172, 86, 101>>,
      <<244, 41, 34, 68>>, <<67, 42, 255, 151>>, <<171, 148, 35, 167>>,
      <<252, 147, 160, 57>>, <<101, 91, 89, 195>>, <<143, 12, 204, 146>>,
      <<255, 239, 244, 125>>, <<133, 132, 93, 209>>, <<111, 168, 126, 79>>,
      <<254, 44, 230, 224>>, <<163, 1, 67, 20>>, <<78, 8, 17, 161>>,
      <<247, 83, 126, 130>>, <<189, 58, 242, 53>>, <<42, 215, 210, 187>>,
      <<235, 134, 211, 145>>>>

\* The initial chaining value.
Md5IV == << <<103, 69, 35, 1>>, <<239, 205, 171, 137>>,
            <<152, 186, 220, 254>>, <<16, 50, 84, 118>> >>

\* The message padded to a multiple of 64 bytes: 0x80, zeros, and the
\* length in bits as 8 bytes, least significant first.
Md5Pad(msg) ==
    LET n == Len(msg)
        z == (119 - (n % 64)) % 64
        bits == [i \in 1..8 |-> CASE i = 1 -> (n * 8) % 256
                                  [] i = 2 -> ((n * 8) \div 256) % 256
                                  [] i = 3 -> ((n * 8) \div 65536) % 256
                                  [] OTHER -> 0]
    IN  msg \o <<128>> \o [i \in 1..z |-> 0] \o bits

\* Word g (0..15) of a 64-byte block, read least significant byte first.
Md5Word(block, g) ==
    <<block[4 * g + 4], block[4 * g + 3], block[4 * g + 2], block[4 * g + 1]>>

\* Step i (0..63) of the compression function on the state <<a, b, c, d>>.
Md5Step(st, block, i) ==
    LET a == st[1]
        b == st[2]
        c == st[3]
        d == st[4]
        f == IF i < 16 THEN Or32(And32(b, c), And32(Not32(b), d))
             ELSE IF i < 32 THEN Or32(And32(d, b), And32(Not32(d), c))
             ELSE IF i < 48 THEN Xor32(Xor32(b, c), d)
             ELSE Xor32(c, Or32(b, Not32(d)))
        g == IF i < 16 THEN i
             ELSE IF i < 32 THEN (5 * i + 1) % 16
             ELSE IF i < 48 THEN (3 * i + 5) % 16
             ELSE (7 * i) % 16
        sum == Add32(Add32(Add32(a, f), Md5K[i + 1]), Md5Word(block, g))
    IN  <<d, Add32(b, RotL32(sum, Md5S[i + 1])), b, c>>

RECURSIVE Md5Steps(_, _, _, _)
\* Steps lo..(hi - 1), the first half of them and then the second half on
\* the first half's result.
Md5Steps(st, block, lo, hi) ==
    IF hi = lo + 1 THEN Md5Step(st, block, lo)
    ELSE LET mid == (lo + hi) \div 2
         IN  CHOOSE r \in { Md5Steps(half, block, mid, hi) :
                               half \in { Md5Steps(st, block, lo, mid) } } : TRUE

\* The chaining value after one block.
Md5Block(st, block) ==
    LET r == Md5Steps(st, block, 0, 64)
    IN  <<Add32(st[1], r[1]), Add32(st[2], r[2]), Add32(st[3], r[3]), Add32(st[4], r[4])>>

RECURSIVE Md5Blocks(_, _)
Md5Blocks(st, padded) ==
    IF padded = <<>> THEN st
    ELSE Md5Blocks(Md5Block(st, SubSeq(padded, 1, 64)), SubSeq(padded, 65, Len(padded)))

\* hash.Sum(nil) after the bytes msg were written: 16 bytes, each word of
\* the state least significant byte first.
md5_Sum(msg) ==
    LET st == Md5Blocks(Md5IV, Md5Pad(msg))
    IN  [i \in 1..16 |-> st[((i - 1) \div 4) + 1][4 - ((i - 1) % 4)]]

\* The digit 0..15 as a lowercase hexadecimal character.
HexDigit(v) == IF v < 10 THEN 48 + v ELSE 87 + v

\* fmt.Sprintf("%x", bytes)
HexEncode(bytes) ==
    [i \in 1..(2 * Len(bytes)) |->
        IF i % 2 = 1 THEN HexDigit(bytes[(i + 1) \div 2] \div 16)
        ELSE HexDigit(bytes[i \div 2] % 16)]

\* The value of a hexadecimal character, or -1.
HexValue(ch) ==
    IF ch >= 48 /\ ch <= 57 THEN ch - 48
    ELSE IF ch >= 97 /\ ch <= 102 THEN ch - 87
    ELSE IF ch >= 65 /\ ch <= 70 THEN ch - 55
    ELSE -1

RECURSIVE HexDecodeFrom(_, _)
HexDecodeFrom(str, j) ==
    IF j + 1 > Len(str) THEN <<>>
    ELSE IF HexValue(str[j]) < 0 \/ HexValue(str[j + 1]) < 0 THEN <<>>
    ELSE <<HexValue(str[j]) * 16 + HexValue(str[j + 1])>> \o HexDecodeFrom(str, j + 2)

\* hex.DecodeString(str), its error dropped: the bytes decoded before the
\* first invalid or unpaired character.
hex_DecodeString(str) == HexDecodeFrom(str, 1)

-----------------------------------------------------------------------------
\* The word stream: write_word calls, then read_word calls on the bytes
\* written, every conn.Read being served in full.

MaxWords == 3

\* "!re", "=disabled", ".tag=1", the empty word, a word whose bytes look
\* like length prefixes, and a word of 128 bytes (two-byte prefix).
ReWord == <<33, 114, 101>>
DisabledWord == <<61, 100, 105, 115, 97, 98, 108, 101, 100>>
TagWord == <<46, 116, 97, 103, 61, 49>>
MarkerWord == <<0, 240>>
LongWord == [i \in 1..128 |-> 97]

WordSet == { ReWord, DisabledWord, TagWord, <<>>, MarkerWord, LongWord }

WordInit ==
    /\ wordPc = "start"
    /\ wordsIn \in UNION { [1..k -> WordSet] : k \in 0..MaxWords }
    /\ wordWire = <<>>
    /\ wordsOut = <<>>
    /\ wordSent = EmptySentence

\* write_word(conn, w) for each word in turn, then write_word(conn, "").
WriteWords ==
    /\ wordPc = "start"
    /\ wordWire' = Flatten(wordsIn) \o write_word(<<>>)
    /\ wordPc' = "written"
    /\ UNCHANGED <<wordsIn, wordsOut, wordSent>>

\* One read_word(conn).
ReadOneWord ==
    /\ wordPc = "written"
    /\ Len(wordsOut) < Len(wordsIn)
    /\ LET w == read_word(wordWire)
       IN  /\ wordsOut' = Append(wordsOut, w.word)
           /\ wordWire' = SubSeq(wordWire, w.used + 1, Len(wordWire))
    /\ UNCHANGED <<wordPc, wordsIn, wordSent>>

\* read_sentence(conn) on the bytes written: it returns a Sentence ...
ReadWords ==
    /\ wordPc = "written"
    /\ wordsOut = <<>>
    /\ ~read_sentence_panics(wordWire)
    /\ wordSent' = read_sentence(wordWire)
    /\ wordWire' = SubSeq(wordWire, read_words_used(wordWire) + 1, Len(wordWire))
    /\ wordPc' = "sentence"
    /\ UNCHANGED <<wordsIn, wordsOut>>

\* ... or panics in parse_sentence.
ReadWordsPanic ==
    /\ wordPc = "written"
    /\ wordsOut = <<>>
    /\ read_sentence_panics(wordWire)
    /\ wordWire' = SubSeq(wordWire, read_words_used(wordWire) + 1, Len(wordWire))
    /\ wordPc' = "panic"
    /\ UNCHANGED <<wordsIn, wordsOut, wordSent>>

-----------------------------------------------------------------------------
\* Framing: read_word on raw bytes, after which the stream ends.

MaxRaw == 3

\* Bytes of each kind of first byte the model can afford: one-byte
\* lengths, the two-byte marker, and bytes no marker matches.
RawBytes == {0, 1, 2, 33, 128, 248, 255}

NoWord == [word |-> <<>>, length |-> 0, got |-> 0, used |-> 0]

FrameInit ==
    /\ framePc = "start"
    /\ frameWire \in UNION { [1..k -> RawBytes] : k \in 1..MaxRaw }
    /\ frameWord = NoWord

\* read_word(conn): the connection holds frameWire and then reports its end.
ReadFrame ==
    /\ framePc = "start"
    /\ frameWord' = read_word(frameWire)
    /\ framePc' = "read"
    /\ UNCHANGED frameWire

-----------------------------------------------------------------------------
\* The client: Connect, RunCommand and Close calls made one after another
\* on one Client, against a peer that answers every request it receives.

MaxRuns == 2
MaxCloses == 2

\* "/login", "=name", "=response", "=ret", "error", "Access denied"
Login == <<47, 108, 111, 103, 105, 110>>
NameAttr == <<61, 110, 97, 109, 101>>
ResponseAttr == <<61, 114, 101, 115, 112, 111, 110, 115, 101>>
RetAttr == <<61, 114, 101, 116>>
ErrorText == <<101, 114, 114, 111, 114>>
AccessDenied == errors_New(<<65, 99, 99, 101, 115, 115, 32, 100, 101, 110, 105, 101, 100>>)

\* The error net.Dial returns when it fails.
DialError == errors_New(<<100, 105, 97, 108, 32, 116, 99, 112, 58, 32, 99, 111, 110, 110, 101, 99, 116, 105, 111, 110, 32, 114, 101, 102, 117, 115, 101, 100>>)

\* client.User and client.Password: "admin" and "pw".
User == <<97, 100, 109, 105, 110>>
Password == <<112, 119>>

\* The seeds the peer hands out under =ret: "0102", and "1g", which is
\* not hexadecimal.
Seeds == { <<48, 49, 48, 50>>, <<49, 103>> }

\* Sentence{Command: "/login"}
FirstLogin == [Command |-> Login, Attributes |-> <<>>]

\* The second login sentence, built from reply[0].Attributes["=ret"] of the
\* first reply: the seed is hex-decoded (the error dropped), hashed after a
\* zero byte and the password, and sent as "00" and the digest in hex.
SecondLogin(ret) ==
    LET seed == hex_DecodeString(ret)
        sum == md5_Sum(<<0>> \o Password \o seed)
    IN  [Command |-> Login,
         Attributes |-> [n \in {NameAttr, ResponseAttr} |->
                            IF n = NameAttr THEN User
                            ELSE <<48, 48>> \o HexEncode(sum)]]

\* RunCommand(command) is entered by caller c: reply and err are fresh and
\* write_sentence starts, the range over the map visiting it in `order`.
Enter(c, command, order) ==
    /\ towrite' = [towrite EXCEPT ![c] = write_calls(write_sentence(command, order))]
    /\ pc' = [pc EXCEPT ![c] = "write"]
    /\ words' = [words EXCEPT ![c] = <<>>]
    /\ reply' = [reply EXCEPT ![c] = <<>>]
    /\ err' = [err EXCEPT ![c] = NilError]
    /\ ncalls' = ncalls + 1
    /\ ioFailed' = FALSE
    /\ UNCHANGED <<out, nreq, stream, peerClosed, peerLog, lastRead, overlap, rlen>>

\* Connect() is called: net.Dial fails and Connect returns its error, or
\* it succeeds and the first RunCommand starts.
ConnectCall ==
    /\ cpc = "idle"
    /\ cret = "none"
    /\ \/ /\ conn' = "nil"
          /\ cerr' = DialError
          /\ cret' = "returned"
          /\ UNCHANGED <<cpc, ioFailed, sessVars>>
       \/ /\ conn' = "open"
          /\ cpc' = "login1"
          /\ Enter(1, FirstLogin, <<>>)
          /\ UNCHANGED <<cerr, cret>>
    /\ UNCHANGED <<runs, closeLog, usedAfter, broken>>

\* Connect, the first RunCommand having returned: its error is returned,
\* or the second login sentence is built and the second RunCommand starts.
ConnectSeed_noerrcheck ==
    \* a slip: the error of the first RunCommand is not looked at
    /\ cpc = "login1"
    /\ pc[1] = "returned"
    /\ LET s == SecondLogin(Lookup(reply[1][1].Attributes, RetAttr))
       IN  \E order \in Orders(DOMAIN s.Attributes) : Enter(1, s, order)
    /\ cpc' = "login2"
    /\ UNCHANGED <<cerr, cret>>
    /\ UNCHANGED <<conn, runs, closeLog, usedAfter, broken>>

ConnectSeed ==
    /\ cpc = "login1"
    /\ pc[1] = "returned"
    /\ IF ~err[1].nil
         THEN /\ cerr' = err[1]
              /\ cret' = "returned"
              /\ cpc' = "idle"
              /\ UNCHANGED <<ioFailed, sessVars>>
         ELSE /\ LET s == SecondLogin(Lookup(reply[1][1].Attributes, RetAttr))
                 IN  \E order \in Orders(DOMAIN s.Attributes) : Enter(1, s, order)
              /\ cpc' = "login2"
              /\ UNCHANGED <<cerr, cret>>
    /\ UNCHANGED <<conn, runs, closeLog, usedAfter, broken>>

\* Connect, the second RunCommand having returned: its error is returned;
\* or the reply carries =ret=error, the connection is closed, client.conn
\* is set to nil and "Access denied" is returned; or nil is returned.
ConnectFinish_noclose ==
    \* a slip: the connection is kept when access is denied
    /\ cpc = "login2"
    /\ pc[1] = "returned"
    /\ IF ~err[1].nil
         THEN cerr' = err[1] /\ UNCHANGED <<conn, closeLog>>
         ELSE IF Lookup(reply[1][1].Attributes, RetAttr) = ErrorText
         THEN /\ cerr' = AccessDenied
              /\ UNCHANGED <<conn, closeLog>>
         ELSE cerr' = err[1] /\ UNCHANGED <<conn, closeLog>>
    /\ cret' = "returned"
    /\ cpc' = "idle"
    /\ UNCHANGED <<runs, ioFailed, usedAfter, broken, sessVars>>

ConnectFinish ==
    /\ cpc = "login2"
    /\ pc[1] = "returned"
    /\ IF ~err[1].nil
         THEN cerr' = err[1] /\ UNCHANGED <<conn, closeLog>>
         ELSE IF Lookup(reply[1][1].Attributes, RetAttr) = ErrorText
         THEN /\ cerr' = AccessDenied
              /\ closeLog' = Append(closeLog, "Connect")
              /\ conn' = "nil"
         ELSE cerr' = err[1] /\ UNCHANGED <<conn, closeLog>>
    /\ cret' = "returned"
    /\ cpc' = "idle"
    /\ UNCHANGED <<runs, ioFailed, usedAfter, broken, sessVars>>

\* RunCommand(command) is called by the Client's user.  With client.conn
\* nil the first conn.Write dereferences a nil interface and panics.
RunCall ==
    /\ cpc = "idle"
    /\ runs < MaxRuns
    /\ runs' = runs + 1
    /\ IF conn = "nil"
         THEN cpc' = "panic" /\ UNCHANGED <<ioFailed, sessVars>>
         ELSE /\ cpc' = "run"
              /\ \E command \in Requests :
                   \E order \in Orders(DOMAIN command.Attributes) : Enter(1, command, order)
    /\ UNCHANGED <<conn, cret, cerr, closeLog, usedAfter, broken>>

\* The user's RunCommand returns.
RunReturn ==
    /\ cpc = "run"
    /\ pc[1] = "returned"
    /\ cpc' = "idle"
    /\ UNCHANGED <<conn, cret, cerr, runs, closeLog, ioFailed, usedAfter, broken, sessVars>>

\* Close() is called: client.conn.Close(), which panics when client.conn
\* is nil.
CloseCall ==
    /\ cpc = "idle"
    /\ Len(closeLog) < MaxCloses
    /\ IF conn = "nil"
         THEN cpc' = "panic" /\ UNCHANGED <<conn, closeLog>>
         ELSE /\ conn' = "closed"
              /\ closeLog' = Append(closeLog, "Close")
              /\ UNCHANGED cpc
    /\ UNCHANGED <<cret, cerr, runs, ioFailed, usedAfter, broken, sessVars>>

\* A conn.Write of write_sentence that returns an error, which is dropped:
\* nothing of its buffer reaches the peer and write_sentence goes on.
ConnWriteFails(c) ==
    /\ pc[c] = "write"
    /\ towrite' = [towrite EXCEPT ![c] = Tail(towrite[c])]
    /\ pc' = [pc EXCEPT ![c] = IF Len(towrite[c]) = 1 THEN "read" ELSE "write"]
    /\ UNCHANGED <<words, reply, err, out, nreq, ncalls, stream, peerClosed, peerLog, lastRead, overlap, rlen>>

\* A conn.Write inside the call in progress.  It succeeds on an open
\* connection; it may fail once the peer has closed, and then so does
\* every later one; it fails on a connection the client closed.
CliWrite ==
    /\ cpc \in {"login1", "login2", "run"}
    /\ \/ /\ conn = "open" /\ ~broken
          /\ ConnWrite(1)
          /\ UNCHANGED <<ioFailed, usedAfter, broken>>
       \/ /\ conn = "open" /\ peerClosed
          /\ ConnWriteFails(1)
          /\ ioFailed' = TRUE
          /\ broken' = TRUE
          /\ UNCHANGED usedAfter
       \/ /\ conn = "closed"
          /\ ConnWriteFails(1)
          /\ ioFailed' = TRUE
          /\ usedAfter' = TRUE
          /\ UNCHANGED broken
    /\ UNCHANGED <<cpc, conn, cret, cerr, runs, closeLog>>

\* A read_byte inside the call in progress.  It fails, and returns 0, at
\* the end of the stream and on a connection the client closed.
CliReadByte ==
    /\ cpc \in {"login1", "login2", "run"}
    /\ \/ /\ conn = "open"
          /\ ReadByte(1)
          /\ ioFailed' = (ioFailed \/ stream = <<>>)
          /\ UNCHANGED usedAfter
       \/ /\ conn = "closed"
          /\ pc[1] = "read"
          /\ ~LengthRead(rlen[1])
          /\ rlen' = [rlen EXCEPT ![1] = Append(rlen[1], 0)]
          /\ ioFailed' = TRUE
          /\ usedAfter' = TRUE
          /\ UNCHANGED <<pc, towrite, words, reply, err, out, nreq, ncalls, stream,
                         peerClosed, peerLog, lastRead, overlap>>
    /\ UNCHANGED <<cpc, conn, cret, cerr, runs, closeLog, broken>>

\* The conn.Read(data) of read_word inside the call in progress.  A read
\* into a non-empty buffer fails at the end of the stream; on a connection
\* the client closed every conn.Read fails and data stays zero: the length
\* read there was 0, the word is empty, the sentence is the no-data
\* sentence and the loop goes round.
CliReadData ==
    /\ cpc \in {"login1", "login2", "run"}
    /\ \/ /\ conn = "open"
          /\ ReadDataFirst(1)
          /\ ioFailed' = (ioFailed \/ (lastRead'.length > 0 /\ stream = <<>>))
          /\ UNCHANGED usedAfter
       \/ /\ conn = "closed"
          /\ pc[1] = "read"
          /\ LengthRead(rlen[1])
          /\ TakeWord(1, Zeros(ToNat(read_length(rlen[1]).length)))
          /\ rlen' = [rlen EXCEPT ![1] = <<>>]
          /\ ioFailed' = TRUE
          /\ usedAfter' = TRUE
          /\ UNCHANGED <<towrite, out, nreq, ncalls, stream, peerClosed, peerLog,
                         lastRead, overlap>>
    /\ UNCHANGED <<cpc, conn, cret, cerr, runs, closeLog, broken>>

\* How many requests the peer has answered: every answer ends with its
\* only "!done".
Answered == Cardinality({ i \in 1..Len(peerLog) : peerLog[i].Command = Done })

\* What the peer answers its k-th request with.  The first /login: "!done"
\* with =ret=<seed>, or a trap.  The second: "!done", "!done" with
\* =ret=error, or a trap.  A command: "!done", "!re" and "!done", or a trap.
TrapAnswer ==
    << [Command |-> Trap, Attributes |-> [n \in {MessageAttr} |-> <<110, 111>>]],
       [Command |-> Done, Attributes |-> <<>>] >>

CliAnswers(k) ==
    IF k = 1 THEN
        { << [Command |-> Done, Attributes |-> [n \in {RetAttr} |-> seed]] >> : seed \in Seeds }
        \cup { TrapAnswer }
    ELSE IF k = 2 THEN
        { << [Command |-> Done, Attributes |-> <<>>] >>,
          << [Command |-> Done, Attributes |-> [n \in {RetAttr} |-> ErrorText]] >>,
          TrapAnswer }
    ELSE
        { << [Command |-> Done, Attributes |-> <<>>] >>,
          << [Command |-> Re, Attributes |-> [n \in {IdAttr} |-> <<42, 49>>]],
             [Command |-> Done, Attributes |-> <<>>] >>,
          TrapAnswer }

\* The peer answers the next request it has received.
PeerAnswer ==
    /\ conn = "open"
    /\ ~peerClosed
    /\ Answered < nreq
    /\ \E answer \in CliAnswers(Answered + 1) :
          /\ stream' = stream \o PeerStream(answer)
          /\ peerLog' = peerLog \o answer
    /\ UNCHANGED <<pc, towrite, words, reply, err, out, nreq, ncalls, peerClosed, lastRead, overlap, rlen>>

\* The connection breaks while the peer answers: only the first bytes of
\* the answer arrive, up to its first word's first byte or all but the
\* last byte, and the stream ends.
PeerCut ==
    /\ conn = "open"
    /\ ~peerClosed
    /\ Answered < nreq
    /\ \E answer \in CliAnswers(Answered + 1) :
         \E cut \in {2, Len(PeerStream(answer)) - 1} :
            stream' = stream \o SubSeq(PeerStream(answer), 1, cut)
    /\ peerClosed' = TRUE
    /\ UNCHANGED <<pc, towrite, words, reply, err, out, nreq, ncalls, peerLog, lastRead, overlap, rlen>>

CliInit ==
    /\ cpc = "idle"
    /\ conn = "nil"
    /\ cret = "none"
    /\ cerr = NilError
    /\ runs = 0
    /\ closeLog = <<>>
    /\ ioFailed = FALSE
    /\ usedAfter = FALSE
    /\ broken = FALSE

-----------------------------------------------------------------------------
\* Two callers on one Client.  RunCommand takes no lock: each caller runs
\* write_sentence and then the read loop on the shared client.conn, and
\* the scheduler may switch between them at every conn.Write and conn.Read.

\* "/print" stands for "/interface/ovpn-client/print".
PrintCommand == [Command |-> <<47, 112, 114, 105, 110, 116>>, Attributes |-> <<>>]

\* "/set" stands for "/interface/ovpn-client/set"; here without attributes.
SetCommand == [Command |-> <<47, 115, 101, 116>>, Attributes |-> <<>>]

\* Caller 1 sets, caller 2 prints.
RequestOf(c) == IF c = 1 THEN SetCommand ELSE PrintCommand

\* The words of caller c's request, in each order write_sentence may
\* write them.
RequestWords(c) ==
    { write_sentence(RequestOf(c), order) : order \in Orders(DOMAIN RequestOf(c).Attributes) }

\* RunCommand(RequestOf(c)) is entered by caller c, whatever the other
\* caller is doing, unless a panic has ended the program.
ConcCall(c) ==
    /\ pc[c] = "idle"
    /\ \A d \in Callers : pc[d] # "panic"
    /\ \E ws \in RequestWords(c) : towrite' = [towrite EXCEPT ![c] = write_calls(ws)]
    /\ pc' = [pc EXCEPT ![c] = "write"]
    /\ words' = [words EXCEPT ![c] = <<>>]
    /\ reply' = [reply EXCEPT ![c] = <<>>]
    /\ err' = [err EXCEPT ![c] = NilError]
    /\ ncalls' = ncalls + 1
    /\ overlap' = (overlap \/ \E d \in Callers \ {c} : pc[d] \in {"write", "read"})
    /\ UNCHANGED <<out, nreq, stream, peerClosed, peerLog, lastRead, rlen>>

RECURSIVE WireWords(_)
\* The words the peer has read from the bytes the client has written: it
\* waits for the whole of a length and the whole of a word.
WireWords(bytes) ==
    IF bytes = <<>> THEN <<>>
    ELSE LET rl == read_length(bytes)
             n == ToNat(rl.length)
         IN  IF Len(bytes) < rl.used + n THEN <<>>
             ELSE <<SubSeq(bytes, rl.used + 1, rl.used + n)>>
                  \o WireWords(SubSeq(bytes, rl.used + n + 1, Len(bytes)))

RECURSIVE WireGroups(_, _)
\* The words cut after each empty word: the sentences on the wire, each
\* with its terminating word, and last the words of a sentence not yet
\* terminated (when there are some).
WireGroups(ws, group) ==
    IF ws = <<>> THEN (IF group = <<>> THEN <<>> ELSE <<group>>)
    ELSE IF Head(ws) = <<>> THEN <<Append(group, <<>>)>> \o WireGroups(Tail(ws), <<>>)
    ELSE WireGroups(Tail(ws), Append(group, Head(ws)))

\* The sentences (terminated ones) the peer has received.
WireSentences(bytes) ==
    LET g == WireGroups(WireWords(bytes), <<>>)
    IN  SelectSeq(g, LAMBDA x : x[Len(x)] = <<>>)

\* What the peer answers a sentence with: "!done" to the set command,
\* "!re" and "!done" to the print command, and "!trap" and "!done" to
\* anything else.
ConcAnswers(ws) ==
    IF ws \in RequestWords(1)
      THEN { << [Command |-> Done, Attributes |-> <<>>] >> }
    ELSE IF ws \in RequestWords(2)
      THEN { << [Command |-> Re, Attributes |-> <<>>],
                [Command |-> Done, Attributes |-> <<>>] >> }
    ELSE { << [Command |-> Trap, Attributes |-> <<>>],
              [Command |-> Done, Attributes |-> <<>>] >> }

\* The peer answers the next sentence it has received.
PeerRespond ==
    /\ ~peerClosed
    /\ Answered < Len(WireSentences(out))
    /\ \E answer \in ConcAnswers(WireSentences(out)[Answered + 1]) :
          /\ stream' = stream \o PeerStream(answer)
          /\ peerLog' = peerLog \o answer
    /\ UNCHANGED <<pc, towrite, words, reply, err, out, nreq, ncalls, peerClosed,
                   lastRead, overlap, rlen>>

-----------------------------------------------------------------------------
\* The specifications.  Each runs one part of the program; the variables
\* of the other parts rest.

LenIdle ==
    /\ lenPc = "off" /\ lenIn = NoLength /\ lenWire = <<>>
    /\ lenOut = NoLength /\ lenUsed = 0

SentIdle ==
    /\ sentPc = "off" /\ sentIn = EmptySentence /\ sentWords = <<>>
    /\ sentWire = <<>> /\ sentOut = EmptySentence

SessIdle ==
    /\ pc = [c \in Callers |-> "off"]
    /\ towrite = [c \in Callers |-> <<>>]
    /\ words = [c \in Callers |-> <<>>]
    /\ reply = [c \in Callers |-> <<>>]
    /\ err = [c \in Callers |-> NilError]
    /\ out = <<>> /\ nreq = 0 /\ ncalls = 0 /\ stream = <<>>
    /\ peerClosed = FALSE /\ peerLog = <<>> /\ lastRead = NoRead /\ overlap = FALSE
    /\ rlen = [c \in Callers |-> <<>>]

WordIdle ==
    /\ wordPc = "off" /\ wordsIn = <<>> /\ wordWire = <<>>
    /\ wordsOut = <<>> /\ wordSent = EmptySentence

FrameIdle == framePc = "off" /\ frameWire = <<>> /\ frameWord = NoWord

CliIdle ==
    /\ cpc = "off" /\ conn = "nil" /\ cret = "none" /\ cerr = NilError
    /\ runs = 0 /\ closeLog = <<>> /\ ioFailed = FALSE /\ usedAfter = FALSE
    /\ broken = FALSE

\* RunCommand on an established session.
Init == SessInit /\ LenIdle /\ SentIdle /\ WordIdle /\ FrameIdle /\ CliIdle

Next ==
    \/ Call(1) /\ UNCHANGED <<lenVars, sentVars, wordVars, frameVars, cliVars>>
    \/ ConnWrite(1) /\ UNCHANGED <<lenVars, sentVars, wordVars, frameVars, cliVars>>
    \/ ReadByte(1) /\ UNCHANGED <<lenVars, sentVars, wordVars, frameVars, cliVars>>
    \/ ReadDataAny(1) /\ UNCHANGED <<lenVars, sentVars, wordVars, frameVars, cliVars>>
    \/ PeerSend /\ UNCHANGED <<lenVars, sentVars, wordVars, frameVars, cliVars>>
    \/ PeerClose /\ UNCHANGED <<lenVars, sentVars, wordVars, frameVars, cliVars>>

Spec == Init /\ [][Next]_vars

\* The same, when every step that can be taken eventually is: the calls in
\* progress keep running and the peer's bytes keep arriving.
FairSpec == Spec /\ WF_vars(Next)

\* Two RunCommand calls on one session, in any interleaving.
InitConcurrent == SessInit /\ LenIdle /\ SentIdle /\ WordIdle /\ FrameIdle /\ CliIdle

NextConcurrent ==
    \/ ConcCall(1) /\ UNCHANGED <<lenVars, sentVars, wordVars, frameVars, cliVars>>
    \/ ConcCall(2) /\ UNCHANGED <<lenVars, sentVars, wordVars, frameVars, cliVars>>
    \/ ConnWrite(1) /\ UNCHANGED <<lenVars, sentVars, wordVars, frameVars, cliVars>>
    \/ ConnWrite(2) /\ UNCHANGED <<lenVars, sentVars, wordVars, frameVars, cliVars>>
    \/ ReadByte(1) /\ UNCHANGED <<lenVars, sentVars, wordVars, frameVars, cliVars>>
    \/ ReadByte(2) /\ UNCHANGED <<lenVars, sentVars, wordVars, frameVars, cliVars>>
    \/ ReadDataFirst(1) /\ UNCHANGED <<lenVars, sentVars, wordVars, frameVars, cliVars>>
    \/ ReadDataFirst(2) /\ UNCHANGED <<lenVars, sentVars, wordVars, frameVars, cliVars>>
    \/ PeerRespond /\ UNCHANGED <<lenVars, sentVars, wordVars, frameVars, cliVars>>

SpecConcurrent == InitConcurrent /\ [][NextConcurrent]_vars

\* The length codec alone.
InitLength == LenInit /\ SentIdle /\ SessIdle /\ WordIdle /\ FrameIdle /\ CliIdle

NextLength ==
    \/ WriteLength /\ UNCHANGED <<sentVars, sessVars, wordVars, frameVars, cliVars>>
    \/ ReadLength /\ UNCHANGED <<sentVars, sessVars, wordVars, frameVars, cliVars>>

SpecLength == InitLength /\ [][NextLength]_vars

\* The sentence codec alone.
InitSentence == SentInit /\ LenIdle /\ SessIdle /\ WordIdle /\ FrameIdle /\ CliIdle

NextSentence ==
    \/ WriteSentence /\ UNCHANGED <<lenVars, sessVars, wordVars, frameVars, cliVars>>
    \/ ReadSentence /\ UNCHANGED <<lenVars, sessVars, wordVars, frameVars, cliVars>>
    \/ ReadSentencePanic /\ UNCHANGED <<lenVars, sessVars, wordVars, frameVars, cliVars>>

SpecSentence == InitSentence /\ [][NextSentence]_vars

\* The word stream alone.
InitWords == WordInit /\ LenIdle /\ SentIdle /\ SessIdle /\ FrameIdle /\ CliIdle

NextWords ==
    \/ WriteWords /\ UNCHANGED <<lenVars, sentVars, sessVars, frameVars, cliVars>>
    \/ ReadOneWord /\ UNCHANGED <<lenVars, sentVars, sessVars, frameVars, cliVars>>
    \/ ReadWords /\ UNCHANGED <<lenVars, sentVars, sessVars, frameVars, cliVars>>
    \/ ReadWordsPanic /\ UNCHANGED <<lenVars, sentVars, sessVars, frameVars, cliVars>>

SpecWords == InitWords /\ [][NextWords]_vars

\* read_word on raw bytes alone.
InitFraming == FrameInit /\ LenIdle /\ SentIdle /\ SessIdle /\ WordIdle /\ CliIdle

NextFraming == ReadFrame /\ UNCHANGED <<lenVars, sentVars, sessVars, wordVars, cliVars>>

SpecFraming == InitFraming /\ [][NextFraming]_vars

\* The client against its peer.
InitClient == SessInit /\ CliInit /\ LenIdle /\ SentIdle /\ WordIdle /\ FrameIdle

NextClient ==
    \/ ConnectCall /\ UNCHANGED <<lenVars, sentVars, wordVars, frameVars>>
    \/ ConnectSeed /\ UNCHANGED <<lenVars, sentVars, wordVars, frameVars>>
    \/ ConnectFinish /\ UNCHANGED <<lenVars, sentVars, wordVars, frameVars>>
    \/ RunCall /\ UNCHANGED <<lenVars, sentVars, wordVars, frameVars>>
    \/ RunReturn /\ UNCHANGED <<lenVars, sentVars, wordVars, frameVars>>
    \/ CloseCall /\ UNCHANGED <<lenVars, sentVars, wordVars, frameVars>>
    \/ CliWrite /\ UNCHANGED <<lenVars, sentVars, wordVars, frameVars>>
    \/ CliReadByte /\ UNCHANGED <<lenVars, sentVars, wordVars, frameVars>>
    \/ CliReadData /\ UNCHANGED <<lenVars, sentVars, wordVars, frameVars>>
    \/ PeerAnswer /\ UNCHANGED <<lenVars, sentVars, wordVars, frameVars, cliVars>>
    \/ PeerCut /\ UNCHANGED <<lenVars, sentVars, wordVars, frameVars, cliVars>>
    \/ PeerClose /\ UNCHANGED <<lenVars, sentVars, wordVars, frameVars, cliVars>>

SpecClient == InitClient /\ [][NextClient]_vars

-----------------------------------------------------------------------------
\* Properties of RunCommand (specification Spec).

Last(s) == s[Len(s)]

DoneSentence == [Command |-> Done, Attributes |-> <<>>]

\* The sentences of a sequence up to and including its first "!done".
RECURSIVE UpToDone(_)
UpToDone(ss) ==
    IF ss = <<>> THEN <<>>
    ELSE IF Head(ss).Command = Done THEN <<Head(ss)>>
    ELSE <<Head(ss)>> \o UpToDone(Tail(ss))

NonEmpty(s) == Len(s.Command) # 0

\* The peer has answered the first call with exactly a "!trap" carrying
\* =message=M and then a "!done", and that call has returned.
TrapThenDone ==
    /\ ncalls = 1 /\ pc[1] = "returned"
    /\ Len(peerLog) = 2
    /\ peerLog[1].Command = Trap /\ MessageAttr \in DOMAIN peerLog[1].Attributes
    /\ peerLog[2] = DoneSentence

\* C1: whenever RunCommand returns, the Reply is non-empty, its last
\* sentence has command "!done" and no earlier sentence has.
C1_ReplyEndsWithDone ==
    \A c \in Callers :
        pc[c] = "returned" =>
            /\ reply[c] # <<>>
            /\ Last(reply[c]).Command = Done
            /\ \A i \in 1..(Len(reply[c]) - 1) : reply[c][i].Command # Done

\* C1 witness: RunCommand has returned a Reply of two sentences.
C1_Witness ==
    pc[1] = "returned" /\ Len(reply[1]) = 2 /\ reply[1][1].Command = Re

\* C2: after "!trap =message=M" then "!done", RunCommand returns both
\* sentences and a non-nil error whose text is exactly M.
C2_TrapMessageIsError ==
    TrapThenDone =>
        /\ Len(reply[1]) = 2
        /\ reply[1][1].Command = Trap
        /\ reply[1][2].Command = Done
        /\ ~err[1].nil
        /\ err[1].text = peerLog[1].Attributes[MessageAttr]

\* C3: the Reply is exactly the non-empty sentences the peer sent after
\* the request, in order, up to and including the first "!done".
C3_ReplyIsWhatPeerSent ==
    (ncalls = 1 /\ pc[1] = "returned") =>
        reply[1] = UpToDone(SelectSeq(peerLog, NonEmpty))

\* C4: no sentence with an empty command is ever an entry of a Reply, and
\* the reply loop is left only by appending a sentence with a non-empty
\* command (a no-data sentence never ends it).
C4_NoDataDiscarded ==
    /\ [](\A c \in Callers : \A i \in 1..Len(reply[c]) : Len(reply[c][i].Command) # 0)
    /\ [][\A c \in Callers :
            (pc[c] = "read" /\ pc'[c] = "returned") =>
                /\ Len(reply'[c]) = Len(reply[c]) + 1
                /\ Len(Last(reply'[c]).Command) # 0]_vars
    /\ [][\A c \in Callers :
            (pc[c] = "read" /\ words[c] = <<>> /\ rlen[c] = <<0>>
                /\ rlen'[c] = <<>>) =>
                (pc'[c] = "read" /\ reply'[c] = reply[c])]_vars

\* C4 witness: the peer sent a no-data sentence and then "!done"; the call
\* read both and returned the "!done" alone.
C4_Witness ==
    /\ pc[1] = "returned"
    /\ peerLog = <<EmptySentence, DoneSentence>>
    /\ reply[1] = <<DoneSentence>>
    /\ lastRead.short = 0

\* C5: the error is nil if and only if no sentence of the Reply has
\* command "!trap".
C5_ErrorIffTrap ==
    \A c \in Callers :
        pc[c] \in {"read", "returned"} =>
            (err[c].nil <=> \A i \in 1..Len(reply[c]) : reply[c][i].Command # Trap)

\* C5 witness: a reply of one "!re" and "!done" was returned with a nil error.
C5_Witness ==
    /\ pc[1] = "returned"
    /\ Len(reply[1]) = 2 /\ reply[1][1].Command = Re /\ reply[1][2].Command = Done
    /\ err[1] = NilError

\* C10: a read_word that decoded a length L on an open stream obtains all
\* L bytes of the word, however they arrive.
C10_ReadWordIsFull ==
    ~lastRead.eof => lastRead.got = lastRead.length

\* The peer closed its end with the request written and without ever
\* having sent a "!done".
ClosedBeforeDone ==
    /\ pc[1] = "read"
    /\ peerClosed
    /\ \A i \in 1..Len(peerLog) : peerLog[i].Command # Done

\* C13: if the peer closes the stream after the request was written and
\* before a "!done" was received, RunCommand eventually returns with an
\* error.
C13_ReturnsAfterClose ==
    ClosedBeforeDone ~> (pc[1] = "returned" /\ ~err[1].nil)

-----------------------------------------------------------------------------
\* Properties of the client (specification SpecClient).

RECURSIVE AnswerOf(_, _)
\* The peer's k-th answer: the sentences of its log after the (k-1)-th
\* "!done" up to and including the k-th.
AnswerOf(log, k) ==
    LET first == UpToDone(log)
    IN  IF k = 1 THEN first
        ELSE AnswerOf(SubSeq(log, Len(first) + 1, Len(log)), k - 1)

CommandsOf(ss) == [i \in 1..Len(ss) |-> ss[i].Command]

HasTrap(ss) == \E i \in 1..Len(ss) : ss[i].Command = Trap

IsPrefix(p, q) == Len(p) <= Len(q) /\ p = SubSeq(q, 1, Len(p))

\* Connect has returned and no other call was made since.
JustConnected ==
    /\ cret = "returned"
    /\ cpc = "idle"
    /\ runs = 0
    /\ \A i \in 1..Len(closeLog) : closeLog[i] # "Close"

\* The =ret attribute of the first sentence of the peer's k-th answer.
RetOf(k) == Lookup(AnswerOf(peerLog, k)[1].Attributes, RetAttr)

\* C11: when the reply to the second /login carries =ret=error, Connect
\* closes the connection and returns "Access denied"; and Connect returns
\* nil only with the connection open and a second reply without =ret=error.
C11_AccessDenied ==
    JustConnected =>
        /\ (Answered = 2 /\ ~HasTrap(AnswerOf(peerLog, 2)) /\ RetOf(2) = ErrorText) =>
              (cerr = AccessDenied /\ conn # "open" /\ closeLog = <<"Connect">>)
        /\ cerr.nil =>
              /\ conn = "open"
              /\ closeLog = <<>>
              /\ nreq = 2
              /\ Answered = 2 => RetOf(2) # ErrorText

\* C11 witness: the peer answered the second /login with =ret=error and
\* Connect returned "Access denied", having closed the connection.
C11_Witness ==
    /\ JustConnected
    /\ Answered = 2 /\ RetOf(2) = ErrorText
    /\ cerr = AccessDenied
    /\ closeLog = <<"Connect">>

\* C12: a conn.Read or conn.Write that failed during a RunCommand makes it
\* return a non-nil error, and makes Connect return one.
C12_TransportErrorReturned ==
    /\ (pc[1] = "returned" /\ ioFailed) => ~err[1].nil
    /\ (JustConnected /\ ioFailed) => ~cerr.nil

\* C14: a RunCommand that returns a trap error leaves the connection open
\* and the stream read up to the end of its own reply; and the RunCommand
\* after one whose reply held a trap returns the sentences of its own reply
\* and an error that is non-nil exactly when its own reply holds a trap.
C14_UsableAfterTrap ==
    /\ (cpc \in {"login1", "login2", "run"} /\ pc[1] = "returned" /\ ~err[1].nil) =>
          (conn = "open" /\ (Answered = ncalls => stream = <<>>))
    /\ (cpc = "run" /\ pc[1] = "returned" /\ ncalls >= 2 /\ Answered = ncalls
           /\ HasTrap(AnswerOf(peerLog, ncalls - 1))) =>
          /\ CommandsOf(reply[1]) = CommandsOf(AnswerOf(peerLog, ncalls))
          /\ err[1].nil <=> ~HasTrap(AnswerOf(peerLog, ncalls))

\* C14 witness: after a Connect that succeeded, the first command was
\* answered with a trap and the second with "!re" and "!done", which the
\* second RunCommand returned with a nil error.
C14_Witness ==
    /\ cpc = "run" /\ pc[1] = "returned" /\ runs = 2 /\ ncalls = 4 /\ Answered = 4
    /\ cerr.nil
    /\ HasTrap(AnswerOf(peerLog, 3))
    /\ CommandsOf(AnswerOf(peerLog, 4)) = <<Re, Done>>
    /\ CommandsOf(reply[1]) = <<Re, Done>>
    /\ err[1].nil

\* C15: the connection is closed at most once, and by Close; it is never
\* read from or written to after it was closed, and no call dereferences
\* a nil client.conn.
C15_ReleasedOnceByClose ==
    /\ Len(closeLog) <= 1
    /\ \A i \in 1..Len(closeLog) : closeLog[i] = "Close"
    /\ ~usedAfter
    /\ cpc # "panic"

\* The bytes of the first login sentence, and of the second one built
\* from the seed the peer sent in the first sentence of its first answer.
FirstLoginBytes == Flatten(write_sentence(FirstLogin, <<>>))

SecondLoginBytes(order) == Flatten(write_sentence(SecondLogin(RetOf(1)), order))

LoginOrders == Orders({NameAttr, ResponseAttr})

\* C17 (amended): Connect writes at most two sentences.  During the first
\* round trip only the bytes of "/login" without attributes are written.
\* The second sentence is written only once the peer's first answer has
\* been read whole, and is "/login" with exactly =name and =response, the
\* response computed from the seed of that answer.  When Connect returns it
\* has written nothing (the dial failed), the first sentence alone (the
\* first round trip returned an error), or exactly the two sentences.
C17_LoginSequence ==
    /\ cpc = "login1" => IsPrefix(out, FirstLoginBytes)
    /\ (cpc = "login2" /\ Answered >= 1) =>
          /\ ~HasTrap(AnswerOf(peerLog, 1))
          /\ nreq = 1 => stream = <<>>
          /\ \E order \in LoginOrders :
                /\ IsPrefix(FirstLoginBytes, out)
                /\ IsPrefix(out, FirstLoginBytes \o SecondLoginBytes(order))
    /\ (JustConnected /\ (Answered >= 1 \/ nreq = 0)) =>
          \/ out = <<>> /\ cerr = DialError
          \/ out = FirstLoginBytes /\ ~cerr.nil /\ HasTrap(AnswerOf(peerLog, 1))
          \/ \E order \in LoginOrders : out = FirstLoginBytes \o SecondLoginBytes(order)

\* C17 witness: Connect returned nil after the two login sentences, the
\* second carrying the digest of the seed "0102".
C17_Witness ==
    /\ JustConnected /\ cerr.nil
    /\ RetOf(1) = <<48, 49, 48, 50>>
    /\ \E order \in LoginOrders : out = FirstLoginBytes \o SecondLoginBytes(order)

\* C17 as stated: whenever Connect returns after a successful dial, it has
\* written exactly the two login sentences.
C17_Original ==
    (JustConnected /\ cerr # DialError /\ Answered >= 1) =>
        \E order \in LoginOrders : out = FirstLoginBytes \o SecondLoginBytes(order)

-----------------------------------------------------------------------------
\* Properties of concurrent use (specification SpecConcurrent).

\* The bytes on the wire are not one caller's request followed by the
\* other's, nor the beginning of that: the two requests are mixed.
Interleaved ==
    \A c \in Callers : \A d \in Callers \ {c} :
        \A wc \in RequestWords(c) : \A wd \in RequestWords(d) :
            ~IsPrefix(out, Flatten(wc) \o Flatten(wd))

\* Caller c has returned a reply the peer gives to the other caller's
\* command and never to c's.
Stolen(c) ==
    /\ pc[c] = "returned"
    /\ reply[c] \notin ConcAnswers(CHOOSE ws \in RequestWords(c) : TRUE)
    /\ \E d \in Callers \ {c} : reply[c] \in ConcAnswers(CHOOSE ws \in RequestWords(d) : TRUE)

\* The requests written whole whose RunCommand has not returned.
Awaiting == { c \in Callers : pc[c] = "read" }

\* C18: RunCommand takes no lock: while both callers are inside
\* write_sentence each of them can make its next conn.Write.  And as long as no
\* two calls have been in progress together, at most one request is
\* waiting for its "!done", at the client and at the peer.
C18_NoLockSerializedOne ==
    /\ (pc[1] = "write" /\ pc[2] = "write") => (ENABLED ConnWrite(1) /\ ENABLED ConnWrite(2))
    /\ ~overlap => (Cardinality(Awaiting) <= 1 /\ nreq - Answered <= 1)
    /\ (Interleaved \/ Stolen(1) \/ Stolen(2)) => overlap

\* C18 witness: the two calls ran together; caller 2's "/print" reached
\* the peer first and was answered with "!re" and "!done", which caller 1
\* read and returned as the reply to its "/set" while the answer to "/set"
\* was not read by it.
C18_Witness ==
    /\ overlap
    /\ Stolen(1)
    /\ CommandsOf(reply[1]) = <<Re, Done>>
    /\ WireSentences(out) = <<write_sentence(PrintCommand, <<>>),
                              CHOOSE ws \in RequestWords(1) : TRUE>>

\* The bytes of the two requests are mixed on the wire.
C18_WitnessInterleaved ==
    /\ overlap
    /\ Interleaved
    /\ Cardinality(Awaiting) = 2

-----------------------------------------------------------------------------
\* Properties of the sentence codec (specification SpecSentence).

SigilNames(s) == \A n \in DOMAIN s.Attributes : Len(n) >= 1 /\ n[1] = EqualsSign

\* C8: a sentence whose attribute names begin with "=" is read back with
\* the same command and the same attributes, whatever the order written.
C8_SentenceRoundTrip ==
    (sentPc \in {"read", "panic"} /\ SigilNames(sentIn)) =>
        (sentPc = "read" /\ sentOut = sentIn)

\* C9: an attribute word is split at the first "=" after the leading
\* sigil: "=name=a=b" gives name "=name" and value "a=b".
C9_SplitAtFirstEquals ==
    sentPc = "read" =>
        \A k \in 2..(Len(sentWords) - 1) :
            LET w == sentWords[k]
                i == SplitFirst(w)
            IN  /\ SubSeq(w, 1, i - 1) \in DOMAIN sentOut.Attributes
                /\ sentOut.Attributes[SubSeq(w, 1, i - 1)] = SubSeq(w, i + 1, Len(w))

-----------------------------------------------------------------------------
\* Properties of the word stream (specifications SpecWords, SpecFraming).

\* C19: after writing w1..wk, successive read_word calls served in full
\* return w1, w2, ... in order, and what is left unread is exactly the
\* bytes of the words not read yet: every length prefix is decoded at a
\* word boundary.
C19_FramingStaysInStep ==
    wordPc = "written" =>
        /\ Len(wordsOut) <= Len(wordsIn)
        /\ wordsOut = SubSeq(wordsIn, 1, Len(wordsOut))
        /\ wordWire = Flatten(SubSeq(wordsIn, Len(wordsOut) + 1, Len(wordsIn)))
                        \o write_word(<<>>)

\* C19 witness: three words were read back, the 128-byte word and a word
\* of marker-like bytes before the last.
C19_Witness ==
    /\ wordPc = "written"
    /\ wordsIn = <<LongWord, MarkerWord, ReWord>>
    /\ wordsOut = wordsIn
    /\ wordWire = <<0>>

\* The input is a well-framed sentence: every word before the terminating
\* zero-length word is non-empty.
WellFramed == \A i \in 1..Len(wordsIn) : Len(wordsIn[i]) # 0

\* C20: read_sentence returns a Sentence, without faulting, for every
\* sequence of non-empty words followed by a zero-length word.
C20_ReadSentenceTotal ==
    WellFramed => wordPc # "panic"

\* A first byte in 0xF8..0xFF matches none of the five markers.
MalformedPrefix == frameWire[1] >= 248

\* The stream ends inside the word: its prefix or its payload is cut.
TruncatedWord ==
    LET rl == read_length(frameWire)
    IN  Len(frameWire) < rl.used + ToNat(rl.length)

\* C16: read_word never returns a word for a malformed length prefix or
\* for a word the end of the stream truncates.
C16_FramingErrorIsFatal ==
    (MalformedPrefix \/ TruncatedWord) => framePc # "read"

=============================================================================
